---- MODULE Spec2Model ----
(***************************************************************************)
(* A model of src/course.py, a Streamlit page script.  Every user          *)
(* interaction (a widget change or a button click) re-runs the script top  *)
(* to bottom; one action of the model is one such run.  Between runs only  *)
(* st.session_state (page, selected_courses) and the widget values         *)
(* persist.                                                                *)
(*                                                                         *)
(* Python strings are sequences of one-character strings, so that          *)
(* slicing, startswith, joining, substring search and the character-level  *)
(* scorer can be computed as the code computes them.                       *)
(***************************************************************************)
EXTENDS Integers, Sequences, FiniteSets, TLC

VARIABLES
    documents,             \* line 25: the fetched documents, in store order
    page,                  \* st.session_state.page
    selected_courses,      \* st.session_state.selected_courses
    selected_update_date,  \* line 69: value of the "Filter by Update Year" selectbox
    selected_submitter,    \* line 70: value of the "Filter by Submitter" selectbox
    selected_category,     \* line 71: value of the "Filter by Category" selectbox
    query,                 \* line 83: value of the text input
    filtered_documents,    \* line 75: local of the last run of the Home branch
    corpus_filtered,       \* line 86: local of the last run of the Home branch
    recommended_docs,      \* line 87: local of the last run of the Home branch
    error,                 \* the exception that ended the last run, or "none"
    call                   \* a direct invocation of recommend_documents (RankSpec)

vars == << documents, page, selected_courses, selected_update_date,
           selected_submitter, selected_category, query, filtered_documents,
           corpus_filtered, recommended_docs, error, call >>

appvars == << documents, page, selected_courses, selected_update_date,
              selected_submitter, selected_category, query, filtered_documents,
              corpus_filtered, recommended_docs, error >>

----------------------------------------------------------------------------
(* Bounds *)

MaxDocs == 2     \* documents in the collection
MaxSaved == 2    \* saves per session
MaxLimit == 3    \* limits tried in direct calls of recommend_documents

----------------------------------------------------------------------------
(* Python strings *)

\* Code points of the characters used, for sorted() and str.lower().
Ord == [c \in {" ", "0", "1", "2", "9", "A", "Q", "a", "b", "c", "d", "l", "q", "x"} |->
          CASE c = " " -> 32 [] c = "0" -> 48 [] c = "1" -> 49 [] c = "2" -> 50
            [] c = "9" -> 57 [] c = "A" -> 65 [] c = "Q" -> 81 [] c = "a" -> 97
            [] c = "b" -> 98 [] c = "c" -> 99 [] c = "d" -> 100 [] c = "l" -> 108
            [] c = "q" -> 113 [] c = "x" -> 120]

\* str.lower() on one character, and on a string.
LowerChar(c) == IF Ord[c] >= 65 /\ Ord[c] <= 90
                THEN CHOOSE l \in DOMAIN Ord : Ord[l] = Ord[c] + 32
                ELSE c

Lower(s) == [i \in 1..Len(s) |-> LowerChar(s[i])]

\* s[:n]
Prefix(s, n) == SubSeq(s, 1, IF Len(s) < n THEN Len(s) ELSE n)

\* s.startswith(p)
StartsWith(s, p) == Len(p) <= Len(s) /\ SubSeq(s, 1, Len(p)) = p

\* p in s, for strings
IsSubstring(p, s) ==
    \E i \in 0..(Len(s) - Len(p)) : SubSeq(s, i + 1, i + Len(p)) = p

\* sep.join(parts)
RECURSIVE Join(_, _)
Join(sep, parts) ==
    IF parts = << >> THEN << >>
    ELSE IF Len(parts) = 1 THEN parts[1]
    ELSE parts[1] \o sep \o Join(sep, Tail(parts))

\* s < t in Python's string order (lexicographic by code point).
RECURSIVE StrLess(_, _)
StrLess(s, t) ==
    IF t = << >> THEN FALSE
    ELSE IF s = << >> THEN TRUE
    ELSE IF s[1] # t[1] THEN Ord[s[1]] < Ord[t[1]]
    ELSE StrLess(Tail(s), Tail(t))

\* sorted(set(...)) of strings
RECURSIVE SortedSet(_)
SortedSet(S) ==
    IF S = {} THEN << >>
    ELSE LET m == CHOOSE x \in S : \A y \in S \ {x} : StrLess(x, y)
         IN << m >> \o SortedSet(S \ {m})

\* the elements of a list
Range(s) == { s[i] : i \in 1..Len(s) }

\* the filter sentinel, and Python's None as dict.get returns it
All == << "A", "l", "l" >>
None == << "None" >>
Unknown == << "U", "n", "k", "n", "o", "w", "n" >>

\* doc.get(key, default)
Get(doc, key, default) == IF key \in DOMAIN doc THEN doc[key] ELSE default

\* Python truthiness of a string-or-None value: None and "" are false
Truthy(v) == v # None /\ v # << >>

----------------------------------------------------------------------------
(* The collection.  A document is a dict: a function from the keys it has. *)
(* Every document has "_id"; every other projected field may be absent.    *)

DocBodies ==
    { [title |-> << "q", "x" >>, abstract |-> << "x" >>,
       categories |-> << << "c" >> >>, submitter |-> << "a" >>,
       update_date |-> << "2", "0", "1", "9", "0" >>],
      [title |-> << "q", "x" >>, abstract |-> << "x" >>,
       categories |-> << << "c" >>, << "d" >> >>, submitter |-> << "b" >>,
       update_date |-> << "2", "0", "2", "0" >>],
      [title |-> << "x", "q" >>, abstract |-> << >>, categories |-> << >>,
       submitter |-> << >>, update_date |-> << >>],
      [abstract |-> << "q", "x" >>] }

\* the dict d with the key "_id" added
WithId(body, id) ==
    [k \in DOMAIN body \cup {"_id"} |-> IF k = "_id" THEN id ELSE body[k]]

\* collection.find(...): any documents, each with its own _id
Collections ==
    UNION { { [i \in 1..n |-> WithId(bs[i], i)] : bs \in [1..n -> DocBodies] }
            : n \in 0..MaxDocs }

\* the strings a user can type into the text input
Queries == { << >>, << "Q" >>, << "q", "x" >> }

----------------------------------------------------------------------------
(* Lines 28-39: distinct filter values and the searchable texts *)

submitters(docs) ==
    SortedSet({ Get(docs[i], "submitter", Unknown) :
                i \in { j \in 1..Len(docs) : Truthy(Get(docs[j], "submitter", None)) } })

categories(docs) ==
    SortedSet(UNION { Range(Get(docs[i], "categories", << >>)) : i \in 1..Len(docs) })

update_dates(docs) ==
    SortedSet({ Prefix(Get(docs[i], "update_date", Unknown), 4) :
                i \in { j \in 1..Len(docs) : Truthy(Get(docs[j], "update_date", None)) } })

\* line 37: the f-string for one document
Text(doc) ==
    Get(doc, "title", << >>) \o << " " >> \o Get(doc, "abstract", << >>) \o << " " >>
        \o Join(<< " " >>, Get(doc, "categories", << >>))

\* lines 33-39: the loop appends one text and one id per document
RECURSIVE corpus(_)
corpus(docs) ==
    IF docs = << >> THEN << >> ELSE << Text(docs[1]) >> \o corpus(Tail(docs))

RECURSIVE ids(_)
ids(docs) ==
    IF docs = << >> THEN << >> ELSE << docs[1]["_id"] >> \o ids(Tail(docs))

----------------------------------------------------------------------------
(* Lines 41-42: TfidfVectorizer(stop_words='english').fit_transform(corpus) *)

\* \w of the default token_pattern (?u)\b\w\w+\b
IsWordChar(c) == c # " "

\* A text yields a term when it has a run of two or more word characters
\* (no word over the characters used here is an English stop word).
HasTerm(text) ==
    \E i \in 1..(Len(text) - 1) : IsWordChar(text[i]) /\ IsWordChar(text[i + 1])

\* fit_transform raises ValueError("empty vocabulary; ...") when no text
\* of the corpus yields a term
EmptyVocabulary(texts) == \A i \in 1..Len(texts) : ~HasTerm(texts[i])

----------------------------------------------------------------------------
(* Line 45: rapidfuzz.fuzz.partial_ratio, the scorer.  process.extract is   *)
(* called without a processor, so the strings are compared as given: no     *)
(* case folding.  Scores are rapidfuzz's floats in units of 1/ScoreUnit,    *)
(* truncated, which keeps equal scores equal and unequal scores unequal     *)
(* for strings of fewer than 50 characters.                                 *)

ScoreUnit == 100 * 100

\* length of a longest common subsequence
RECURSIVE LCS(_, _)
LCS(a, b) ==
    IF a = << >> \/ b = << >> THEN 0
    ELSE IF a[1] = b[1] THEN 1 + LCS(Tail(a), Tail(b))
    ELSE LET l == LCS(Tail(a), b)
             r == LCS(a, Tail(b))
         IN IF l >= r THEN l ELSE r

\* Indel.normalized_similarity(a, b) * 100:
\* 100 * (1 - (len(a) + len(b) - 2 * LCS) / (len(a) + len(b)))
IndelSimilarity(a, b) ==
    IF Len(a) + Len(b) = 0 THEN 100 * ScoreUnit
    ELSE (100 * ScoreUnit * 2 * LCS(a, b)) \div (Len(a) + Len(b))

SetMax(S) == IF S = {} THEN 0 ELSE CHOOSE m \in S : \A x \in S : x <= m

\* _partial_ratio_impl(s1, s2) for len(s1) <= len(s2): the best similarity of
\* s1 to a window of s2.  The windows are the prefixes of s2 shorter than
\* s1, the substrings of s2 as long as s1, and the suffixes of s2 no longer
\* than s1; a prefix or substring is skipped when its last character does
\* not occur in s1, a suffix when its first character does not.
PartialRatioImpl(s1, s2) ==
    LET len1 == Len(s1)
        len2 == Len(s2)
        chars == Range(s1)
        prefixes == { SubSeq(s2, 1, i) :
                      i \in { j \in 1..(len1 - 1) : s2[j] \in chars } }
        substrs == { SubSeq(s2, i + 1, i + len1) :
                     i \in { j \in 0..(len2 - len1 - 1) : s2[j + len1] \in chars } }
        suffixes == { SubSeq(s2, i + 1, len2) :
                      i \in { j \in (len2 - len1)..(len2 - 1) : s2[j + 1] \in chars } }
    IN SetMax({ IndelSimilarity(s1, w) : w \in prefixes \cup substrs \cup suffixes })

\* fuzz.partial_ratio(s1, s2)
partial_ratio(s1, s2) ==
    IF s1 = << >> /\ s2 = << >> THEN 100 * ScoreUnit
    ELSE IF s1 = << >> \/ s2 = << >> THEN 0
    ELSE IF Len(s1) < Len(s2) THEN PartialRatioImpl(s1, s2)
    ELSE IF Len(s1) > Len(s2) THEN PartialRatioImpl(s2, s1)
    ELSE LET r1 == PartialRatioImpl(s1, s2)
             r2 == PartialRatioImpl(s2, s1)
         IN IF r1 # 100 * ScoreUnit /\ r2 > r1 THEN r2 ELSE r1

----------------------------------------------------------------------------
(* Lines 44-47: recommend_documents *)

\* the score of every choice, in the order of the choices
RECURSIVE Scores(_, _)
Scores(q, choices) ==
    IF choices = << >> THEN << >>
    ELSE << partial_ratio(q, choices[1]) >> \o Scores(q, Tail(choices))

\* Before with equal scores ordered by descending index
BeforeLastSeen(score, i, j) == score[i] > score[j] \/ (score[i] = score[j] /\ i > j)

\* result i comes before result j: higher score first, equal scores by
\* ascending index
Before(score, i, j) == score[i] > score[j] \/ (score[i] = score[j] /\ i < j)

\* the indices in S, ordered by Before
RECURSIVE Sorted(_, _)
Sorted(score, S) ==
    IF S = {} THEN << >>
    ELSE LET best == CHOOSE i \in S : \A j \in S \ {i} : Before(score, i, j)
         IN << best >> \o Sorted(score, S \ {best})

\* extract dropping the choices that score 0
ExtractPositive(q, choices, limit) ==
    LET n == Len(choices)
        score == Scores(q, choices)
        order == Sorted(score, { i \in 1..n : score[i] > 0 })
        m == IF limit < Len(order) THEN limit ELSE Len(order)
    IN [k \in 1..m |-> << choices[order[k]], score[order[k]], order[k] - 1 >>]

\* process.extract(query, choices, scorer=fuzz.partial_ratio, limit=limit):
\* every choice is scored (no score_cutoff), the (choice, score, index)
\* triples are ordered by descending score, equal scores by ascending index,
\* and the first `limit` are returned.  Indices are Python's, from 0.
extract(q, choices, limit) ==
    LET n == Len(choices)
        score == Scores(q, choices)
        order == Sorted(score, 1..n)
        m == IF limit < n THEN limit ELSE n
    IN [k \in 1..m |-> << choices[order[k]], score[order[k]], order[k] - 1 >>]

\* recommend_documents indexing the module-level documents, which its
\* parameter of the same name shadows
RecommendFromGlobal(q, texts, docs, limit) ==
    LET results == extract(q, texts, limit)
    IN [k \in 1..Len(results) |-> documents[results[k][3] + 1]]

\* recommend_documents(query, corpus, documents, limit): documents[result[2]]
\* for each result.  An index beyond the documents raises IndexError.
recommend_documents(q, texts, docs, limit) ==
    LET results == extract(q, texts, limit)
    IN [k \in 1..Len(results) |-> docs[results[k][3] + 1]]

----------------------------------------------------------------------------
(* Lines 65-103: the Home branch of one run of the script *)

\* the limit passed at line 87
SearchLimit == 50

\* Passes with the year compared for equality instead of by prefix
PassesYearEqual(doc, year, submitter, category) ==
    /\ (year = All \/ Get(doc, "update_date", << >>) = year)
    /\ (submitter = All \/ Get(doc, "submitter", None) = submitter)
    /\ (category = All \/ category \in Range(Get(doc, "categories", << >>)))

\* the condition of the comprehension at lines 77-79
Passes(doc, year, submitter, category) ==
    /\ (year = All \/ StartsWith(Get(doc, "update_date", << >>), year))
    /\ (submitter = All \/ Get(doc, "submitter", None) = submitter)
    /\ (category = All \/ category \in Range(Get(doc, "categories", << >>)))

\* lines 75-80: [doc for doc in documents if ...]
FilterDocuments(docs, year, submitter, category) ==
    SelectSeq(docs, LAMBDA doc : Passes(doc, year, submitter, category))

\* doc in filtered: list membership, by dict equality
In(doc, list) == \E k \in 1..Len(list) : list[k] = doc

\* line 86, from position i of the enumeration on
RECURSIVE CorpusFilteredFrom(_, _, _, _)
CorpusFilteredFrom(i, docs, texts, filtered) ==
    IF i > Len(docs) THEN << >>
    ELSE (IF In(docs[i], filtered) THEN << texts[i] >> ELSE << >>)
             \o CorpusFilteredFrom(i + 1, docs, texts, filtered)

\* corpus_filtered taken as the first len(filtered_documents) texts
CorpusFilteredLeading(docs, filtered) == SubSeq(corpus(docs), 1, Len(filtered))

\* line 86: [corpus[i] for i, doc in enumerate(documents) if doc in filtered_documents]
CorpusFiltered(docs, filtered) == CorpusFilteredFrom(1, docs, corpus(docs), filtered)

\* the search run whatever the query
SearchesAlways(q) == TRUE

\* line 85: `if query:`, the truthiness of the text input's value
Searches(q) == q # << >>

\* the save inserting at the front
SaveFirst(courses, rec) == << rec >> \o courses

\* line 98: st.session_state.selected_courses.append(rec)
SaveTo(courses, rec) == Append(courses, rec)

\* lines 92 and 96: rec['title'] and rec['abstract'] raise KeyError when absent
RaisesKeyError(rec) == "title" \notin DOMAIN rec \/ "abstract" \notin DOMAIN rec

\* the number of results whose expander is written before the loop at lines
\* 91-99 ends or raises
Rendered(recs) ==
    IF \E i \in 1..Len(recs) : RaisesKeyError(recs[i])
    THEN (CHOOSE i \in 1..Len(recs) :
            /\ RaisesKeyError(recs[i])
            /\ \A j \in 1..(i - 1) : ~RaisesKeyError(recs[j])) - 1
    ELSE Len(recs)

\* the values the three selectboxes offer, lines 69-71
Options(values) == << All >> \o values

\* One run of the Home branch with the given widget values.  save is the
\* position (from 1) of the clicked "Save Course" button, or 0.
HomeRun(year, submitter, category, q, save) ==
    LET filtered == FilterDocuments(documents, year, submitter, category)
        texts == IF Searches(q) THEN CorpusFiltered(documents, filtered) ELSE << >>
        recs == IF Searches(q)
                THEN recommend_documents(q, texts, filtered, SearchLimit)
                ELSE << >>
        rendered == Rendered(recs)
    IN /\ selected_update_date' = year
       /\ selected_submitter' = submitter
       /\ selected_category' = category
       /\ query' = q
       /\ filtered_documents' = filtered
       /\ corpus_filtered' = texts
       /\ recommended_docs' = recs
       /\ selected_courses' = IF save >= 1 /\ save <= rendered
                              THEN SaveTo(selected_courses, recs[save])
                              ELSE selected_courses
       /\ error' = IF rendered < Len(recs) THEN "KeyError" ELSE "none"

\* lines 105-123: the SelectedCourses branch raises KeyError at line 110 or
\* 114 for a saved course without title or abstract.  The branch creates no
\* selectbox and no text input, so Streamlit drops their values and the
\* locals of the Home branch do not exist.
SelectedRun ==
    /\ selected_update_date' = All
    /\ selected_submitter' = All
    /\ selected_category' = All
    /\ query' = << >>
    /\ filtered_documents' = << >>
    /\ corpus_filtered' = << >>
    /\ recommended_docs' = << >>
    /\ error' = IF \E i \in 1..Len(selected_courses) : RaisesKeyError(selected_courses[i])
                THEN "KeyError" ELSE "none"

----------------------------------------------------------------------------
(* The session *)

NoCall == [state |-> "none"]

\* The first run of a session: lines 50-54 set the session state, every
\* widget has its default value.  The script gets this far only when
\* fit_transform at line 42 does not raise.
Init ==
    /\ documents \in { c \in Collections : ~EmptyVocabulary(corpus(c)) }
    /\ page = "Home"
    /\ selected_courses = << >>
    /\ selected_update_date = All
    /\ selected_submitter = All
    /\ selected_category = All
    /\ query = << >>
    /\ filtered_documents = FilterDocuments(documents, All, All, All)
    /\ corpus_filtered = << >>
    /\ recommended_docs = << >>
    /\ error = "none"
    /\ call = NoCall

\* the user picks another update year
SelectUpdateDate(year) ==
    /\ page = "Home"
    /\ year \in Range(Options(update_dates(documents))) \ {selected_update_date}
    /\ HomeRun(year, selected_submitter, selected_category, query, 0)
    /\ UNCHANGED << documents, page, call >>

\* the user picks another submitter
SelectSubmitter(submitter) ==
    /\ page = "Home"
    /\ submitter \in Range(Options(submitters(documents))) \ {selected_submitter}
    /\ HomeRun(selected_update_date, submitter, selected_category, query, 0)
    /\ UNCHANGED << documents, page, call >>

\* the user picks another category
SelectCategory(category) ==
    /\ page = "Home"
    /\ category \in Range(Options(categories(documents))) \ {selected_category}
    /\ HomeRun(selected_update_date, selected_submitter, category, query, 0)
    /\ UNCHANGED << documents, page, call >>

\* the user submits another query
EnterQuery(q) ==
    /\ page = "Home"
    /\ q # query
    /\ HomeRun(selected_update_date, selected_submitter, selected_category, q, 0)
    /\ UNCHANGED << documents, page, call >>

\* the user clicks "Save Course i": the button exists when the last run
\* wrote the expander of result i
SaveCourse(i) ==
    /\ page = "Home"
    /\ Searches(query)
    /\ i >= 1 /\ i <= Rendered(recommended_docs)
    /\ Len(selected_courses) < MaxSaved
    /\ HomeRun(selected_update_date, selected_submitter, selected_category, query, i)
    /\ UNCHANGED << documents, page, call >>

\* the view button placed outside the `if query:` block
ViewSelectedCoursesAnyQuery ==
    /\ page = "Home"
    /\ error = "none"
    /\ page' = "SelectedCourses"
    /\ SelectedRun
    /\ UNCHANGED << documents, selected_courses, call >>

\* the user clicks "View Selected Courses": the button exists when the last
\* run reached line 102.  go_to_selected_courses sets the page and reruns;
\* the rerun takes the SelectedCourses branch, which has no widgets.
ViewSelectedCourses ==
    /\ page = "Home"
    /\ Searches(query)
    /\ error = "none"
    /\ page' = "SelectedCourses"
    /\ SelectedRun
    /\ UNCHANGED << documents, selected_courses, call >>

\* the user clicks "Back to Home": go_home sets the page and reruns; the
\* rerun takes the Home branch with every widget at its default again.
BackToHome ==
    /\ page = "SelectedCourses"
    /\ error = "none"
    /\ page' = "Home"
    /\ HomeRun(All, All, All, << >>, 0)
    /\ UNCHANGED << documents, call >>

Next ==
    \/ \E year \in Range(Options(update_dates(documents))) : SelectUpdateDate(year)
    \/ \E submitter \in Range(Options(submitters(documents))) : SelectSubmitter(submitter)
    \/ \E category \in Range(Options(categories(documents))) : SelectCategory(category)
    \/ \E q \in Queries : EnterQuery(q)
    \/ \E i \in 1..MaxDocs : SaveCourse(i)
    \/ ViewSelectedCourses
    \/ BackToHome

Spec == Init /\ [][Next]_vars

----------------------------------------------------------------------------
(* recommend_documents called directly, with any query, documents and limit *)

RankInit ==
    /\ documents \in Collections
    /\ page = "Home"
    /\ selected_courses = << >>
    /\ selected_update_date = All
    /\ selected_submitter = All
    /\ selected_category = All
    /\ query = << >>
    /\ filtered_documents = << >>
    /\ corpus_filtered = << >>
    /\ recommended_docs = << >>
    /\ error = "none"
    /\ call \in { [state |-> "called", query |-> q, limit |-> l] :
                  q \in Queries, l \in 0..MaxLimit }

Recommend ==
    /\ call.state = "called"
    /\ call' = [state |-> "returned", query |-> call.query, limit |-> call.limit,
                result |-> recommend_documents(call.query, corpus(documents),
                                               documents, call.limit)]
    /\ UNCHANGED appvars

RankNext == Recommend

RankSpec == RankInit /\ [][RankNext]_vars

----------------------------------------------------------------------------
(* Properties *)

Min(a, b) == IF a < b THEN a ELSE b

\* the filter condition as the specification words it, for the widget
\* values of the last run
Satisfies(doc) ==
    /\ \/ selected_update_date = All
       \/ /\ "update_date" \in DOMAIN doc
          /\ Len(doc.update_date) >= Len(selected_update_date)
          /\ \A k \in 1..Len(selected_update_date) :
                 doc.update_date[k] = selected_update_date[k]
    /\ \/ selected_submitter = All
       \/ "submitter" \in DOMAIN doc /\ doc.submitter = selected_submitter
    /\ \/ selected_category = All
       \/ /\ "categories" \in DOMAIN doc
          /\ \E k \in 1..Len(doc.categories) : doc.categories[k] = selected_category

\* the documents of a list, as a set
Members(list) == { list[k] : k \in 1..Len(list) }

\* C1: on the Home page a document is in the filter output exactly when it
\* satisfies each of the three constraints (a constraint is satisfied when
\* it is "All", or the document has the field and the field matches).
C1_FilterIffSatisfies ==
    page = "Home" =>
        \A i \in 1..Len(documents) :
            documents[i] \in Members(filtered_documents) <=> Satisfies(documents[i])

\* a run with all three constraints concrete that keeps one document and
\* excludes another because a field is absent
C1_Witness ==
    /\ page = "Home"
    /\ selected_update_date # All /\ selected_submitter # All /\ selected_category # All
    /\ Len(filtered_documents) >= 1
    /\ \E i \in 1..Len(documents) :
           /\ "categories" \notin DOMAIN documents[i]
           /\ documents[i] \notin Members(filtered_documents)

\* C2: every document of the search result is one of the filtered
\* documents and satisfies the constraints of the run.
C2_ResultsAreCandidates ==
    \A k \in 1..Len(recommended_docs) :
        /\ recommended_docs[k] \in Members(filtered_documents)
        /\ Satisfies(recommended_docs[k])

\* a search that returned something while the filter excluded a document
C2_Witness ==
    /\ page = "Home"
    /\ query # << >>
    /\ Len(recommended_docs) >= 1
    /\ Len(filtered_documents) < Len(documents)

\* C3: a run with an empty query has an empty result, and a step to an
\* empty query leaves the selection as it was.
C3_EmptyQueryNoSearch ==
    /\ [](query = << >> => recommended_docs = << >>)
    /\ [][query' = << >> => selected_courses' = selected_courses]_vars

\* an empty query on the Home page over a collection with documents, after
\* something was saved
C3_Witness ==
    /\ page = "Home"
    /\ query = << >>
    /\ Len(filtered_documents) >= 1
    /\ selected_courses # << >>

\* C4: a call with a non-empty query returns min(limit, number of
\* candidates) documents.
C4_ResultLength ==
    (call.state = "returned" /\ call.query # << >>) =>
        Len(call.result) = Min(call.limit, Len(documents))

\* a call whose limit cut the candidates short
C4_Witness ==
    /\ call.state = "returned"
    /\ call.query # << >>
    /\ call.limit >= 1
    /\ call.limit < Len(documents)
    /\ Len(call.result) = call.limit

\* the position of a filtered document in the candidate list
Position(doc) == CHOOSE k \in 1..Len(filtered_documents) : filtered_documents[k] = doc

\* C5: the result is in descending order of score, results of equal score
\* are in candidate order, and a rerun with the same widget values returns
\* the same sequence.
C5_DescendingStable ==
    /\ [](\A k \in 1..Len(recommended_docs) : \A l \in (k + 1)..Len(recommended_docs) :
            LET sk == partial_ratio(query, Text(recommended_docs[k]))
                sl == partial_ratio(query, Text(recommended_docs[l]))
            IN sk > sl \/ (sk = sl /\ Position(recommended_docs[k]) < Position(recommended_docs[l])))
    /\ [][(/\ page = "Home" /\ page' = "Home"
           /\ query' = query
           /\ selected_update_date' = selected_update_date
           /\ selected_submitter' = selected_submitter
           /\ selected_category' = selected_category)
          => recommended_docs' = recommended_docs]_vars

\* two results of equal score, after a rerun of the same query (a save)
C5_Witness ==
    /\ Len(recommended_docs) >= 2
    /\ partial_ratio(query, Text(recommended_docs[1]))
           = partial_ratio(query, Text(recommended_docs[2]))
    /\ selected_courses # << >>

\* C6: a candidate text whose lowercase form contains the lowercase form of
\* the query scores 100.
C6_CaseInsensitiveFullScore ==
    (page = "Home" /\ query # << >>) =>
        \A k \in 1..Len(corpus_filtered) :
            IsSubstring(Lower(query), Lower(corpus_filtered[k]))
                => partial_ratio(query, corpus_filtered[k]) = 100 * ScoreUnit

\* C7: the selection starts empty, and every step either leaves it as it
\* was or appends one of the displayed results at its end.
C7_SelectionAppendOnly ==
    /\ selected_courses = << >>
    /\ [][\/ selected_courses' = selected_courses
          \/ /\ page = "Home" /\ page' = "Home"
             /\ \E k \in 1..Len(recommended_docs) :
                    selected_courses' = Append(selected_courses, recommended_docs[k])]_vars

\* the same document saved twice, after another one
C7_Witness ==
    /\ Len(selected_courses) >= 2
    /\ \E k \in 1..(Len(selected_courses) - 1) : selected_courses[k] = selected_courses[k + 1]

\* C8: no run ends in an exception.
C8_NoFailure == error = "none"

\* C9: when a search runs, corpus_filtered has one text per filtered
\* document, the k-th being the text of the k-th filtered document, and the
\* filtered documents are in the order of the collection.
C9_TextsAligned ==
    (page = "Home" /\ query # << >>) =>
        /\ Len(corpus_filtered) = Len(filtered_documents)
        /\ \A k \in 1..Len(filtered_documents) :
               /\ k <= Len(corpus_filtered)
               /\ corpus_filtered[k] = Text(filtered_documents[k])
        /\ \A k \in 1..Len(filtered_documents) : \A l \in (k + 1)..Len(filtered_documents) :
               filtered_documents[k]["_id"] < filtered_documents[l]["_id"]

\* a search over a filtered list that leaves out an earlier document whose
\* text differs from the text of a kept one
C9_Witness ==
    /\ page = "Home"
    /\ query # << >>
    /\ Len(filtered_documents) >= 1
    /\ documents[1] \notin Members(filtered_documents)
    /\ Text(documents[1]) # Text(filtered_documents[1])

\* C10: the page is Home or SelectedCourses, Home at first; a step that
\* changes the page leaves the selection as it was, and leaves Home only
\* when the query is not empty; on SelectedCourses the way back is enabled.
C10_Navigation ==
    /\ page = "Home"
    /\ [](page \in {"Home", "SelectedCourses"})
    /\ [][page' # page => /\ selected_courses' = selected_courses
                          /\ (page = "Home" => query # << >>)]_vars
    /\ [](page = "SelectedCourses" => ENABLED BackToHome)

\* the SelectedCourses page with nothing saved
C10_Witness ==
    /\ page = "SelectedCourses"
    /\ selected_courses = << >>

====
